---- MODULE Spec2Model ----
(***************************************************************************)
(* Turboshaft Opmasks (src/compiler/turboshaft/opmasks.h).                 *)
(*                                                                         *)
(* A 64-bit word is modelled as its eight bytes, least significant first:  *)
(* a function from byte offset 0..7 to 0..255.  Every shift of the header  *)
(* is by a multiple of kBitsPerByte bits, so shifts move whole bytes; the  *)
(* bitwise operators work bit by bit inside each byte.                     *)
(***************************************************************************)
EXTENDS Integers, Sequences, FiniteSets

VARIABLES
  op,          \* Op: the owning operation type of the MaskBuilder
  fields,      \* Fields...: the OpMaskField descriptors, in declaration order
  args,        \* Args...: the values bound by For
  mask,        \* OpMaskT::mask   (BuildMask())
  value,       \* OpMaskT::value  (EncodeValue(Args...))
  pc,          \* "declare" | "built" | "is" | "trycast" | "error"
  err,         \* which build-time check rejected the program
  record,      \* the leading word of the operation record handed to Is / TryCast
  isResult,    \* result of my_op.Is<Mask>()
  castResult   \* result of my_op.TryCast<Mask>()

vars == <<op, fields, args, mask, value, pc, err, record, isResult, castResult>>

---------------------------------------------------------------------------
(* Bounds and program constants *)

\* most field descriptors one MaskBuilder is given
MaxFields == 2

\* kBitsPerByte
kBitsPerByte == 8

\* sizeof(uint64_t)
kWordSize == 8

\* sizeof(Operation): fields of a concrete operation type start past the base
kOperationSize == 4

ByteIdx == 0 .. (kWordSize - 1)

---------------------------------------------------------------------------
(* Primitive field types: sizeof(T) and signedness *)

FieldTypes == {"uint8_t", "int8_t", "uint16_t", "uint64_t"}

SizeOf(T) ==
  CASE T = "uint8_t"  -> 1
    [] T = "int8_t"   -> 1
    [] T = "uint16_t" -> 2
    [] T = "uint64_t" -> kWordSize

IsSigned(T) == T = "int8_t"

\* 2^(8 * n) for n <= 3 (the widths whose range a model value can leave)
Pow256(n) == IF n = 0 THEN 1 ELSE IF n = 1 THEN 256 ELSE IF n = 2 THEN 65536 ELSE 16777216

\* A constant converts to a template argument of type T without narrowing
\* exactly when T can represent it.
FitsType(T, v) ==
  IF SizeOf(T) >= 4 THEN v >= 0
  ELSE IF IsSigned(T)
       THEN v >= -(Pow256(SizeOf(T)) \div 2) /\ v <= (Pow256(SizeOf(T)) \div 2) - 1
       ELSE v >= 0 /\ v <= Pow256(SizeOf(T)) - 1

---------------------------------------------------------------------------
(* 64-bit words as bytes *)

Zero64 == [b \in ByteIdx |-> 0]

\* a | b and a & b on n-bit values, bit by bit; the first tests only shortcut
\* the operands whose result needs no bit to be looked at
RECURSIVE OrBits(_, _, _)
OrBits(a, b, n) ==
  IF a = 0 THEN b ELSE IF b = 0 THEN a
  ELSE IF n = 0 THEN 0
  ELSE (IF a % 2 = 1 \/ b % 2 = 1 THEN 1 ELSE 0) + 2 * OrBits(a \div 2, b \div 2, n - 1)

RECURSIVE AndBits(_, _, _)
AndBits(a, b, n) ==
  IF a = 0 \/ b = 0 THEN 0
  ELSE IF n = 0 THEN 0
  ELSE (IF a % 2 = 1 /\ b % 2 = 1 THEN 1 ELSE 0) + 2 * AndBits(a \div 2, b \div 2, n - 1)

Or64(x, y)  == [b \in ByteIdx |-> OrBits(x[b], y[b], kBitsPerByte)]
And64(x, y) == [b \in ByteIdx |-> AndBits(x[b], y[b], kBitsPerByte)]
Not64(x)    == [b \in ByteIdx |-> 255 - x[b]]

\* x << bits and x >> bits on uint64_t, bits a multiple of kBitsPerByte below 64
Shl64(x, bits) ==
  [b \in ByteIdx |-> IF b - (bits \div kBitsPerByte) >= 0
                     THEN x[b - (bits \div kBitsPerByte)] ELSE 0]
Shr64(x, bits) ==
  [b \in ByteIdx |-> IF b + (bits \div kBitsPerByte) <= kWordSize - 1
                     THEN x[b + (bits \div kBitsPerByte)] ELSE 0]

\* static_cast<uint64_t>(v): the value modulo 2^64.  Floor division gives the
\* two's complement bytes of a negative v; the bytes past the fourth are its
\* sign fill (model values lie within 32 bits).
StaticCastUint64(v) ==
  [b \in ByteIdx |-> IF b <= 3 THEN (v \div Pow256(b)) % 256
                     ELSE IF v < 0 THEN 255 ELSE 0]

---------------------------------------------------------------------------
(* OpMaskField and encode_for_mask *)

OpMaskField(T, Offset) == [type |-> T, offset |-> Offset, size |-> SizeOf(T)]

\* static_assert(offset + size <= sizeof(uint64_t))
OpMaskFieldAssert(F) == F.offset + F.size <= kWordSize

encode_for_mask(v) == StaticCastUint64(v)

---------------------------------------------------------------------------
(* MaskBuilder *)

BuildBaseMask == StaticCastUint64(255)

EncodeBaseValue(opcode) == StaticCastUint64(opcode)

\* variant: the size check written with <=
BuildFieldMaskAssertLoose(F) == F.size <= kWordSize /\ F.offset + F.size <= kWordSize

\* static_assert(F::size < sizeof(uint64_t));
\* static_assert(F::offset + F::size <= sizeof(uint64_t));
BuildFieldMaskAssert(F) == F.size < kWordSize /\ F.offset + F.size <= kWordSize

\* variant: the run of ones is one byte whatever the size of the field
BuildFieldMaskOneByte(F) ==
  Shl64(Shr64(StaticCastUint64(-1), (kWordSize - 1) * kBitsPerByte),
        F.offset * kBitsPerByte)

BuildFieldMask(F) ==
  Shl64(Shr64(StaticCastUint64(-1), (kWordSize - F.size) * kBitsPerByte),
        F.offset * kBitsPerByte)

EncodeFieldValue(F, v) == Shl64(encode_for_mask(v), F.offset * kBitsPerByte)

\* (base_mask | ... | BuildFieldMask<Fields>()): a left fold over the pack
RECURSIVE BuildMaskFold(_, _)
BuildMaskFold(acc, fs) ==
  IF fs = <<>> THEN acc
  ELSE BuildMaskFold(Or64(acc, BuildFieldMask(Head(fs))), Tail(fs))

BuildMask(fs) == BuildMaskFold(BuildBaseMask, fs)

RECURSIVE EncodeValueFold(_, _, _)
EncodeValueFold(acc, fs, a) ==
  IF fs = <<>> THEN acc
  ELSE EncodeValueFold(Or64(acc, EncodeFieldValue(Head(fs), Head(a))), Tail(fs), Tail(a))

\* variant: only the last field is combined with the opcode
EncodeValueLastOnly(o, fs, a) ==
  IF fs = <<>> THEN EncodeBaseValue(o)
  ELSE Or64(EncodeBaseValue(o), EncodeFieldValue(fs[Len(fs)], a[Len(a)]))

\* EncodeValue(args...), with o = operation_to_opcode_map<Op>::value
EncodeValue(o, fs, a) == EncodeValueFold(EncodeBaseValue(o), fs, a)

---------------------------------------------------------------------------
(* The operation types (operations.h) *)

Ops == {"WordBinopOp", "ShiftOp"}

\* operation_to_opcode_map<Op>::value
OpcodeOf(o) == IF o = "WordBinopOp" THEN 2 ELSE 3

\* the (type, offset) of the members FIELD(op, field_name) can name: members
\* of a concrete operation type lie past the Operation base, each aligned to
\* its own size; a member may lie past the leading word
MemberTypes == {"uint8_t", "int8_t", "uint16_t"}
Members ==
  { m \in MemberTypes \X (kOperationSize .. kWordSize) : m[2] % SizeOf(m[1]) = 0 }

\* my_op.Is<Mask>(): mask the leading word and compare with the shape
Test(m, v, w) == And64(w, m) = v

NullPtr == [null |-> TRUE]

\* my_op.TryCast<Mask>(): the record itself, typed as Op, when it is one
\* variant: the cast without the test
TryCastAlways(o, m, v, w) == [null |-> FALSE, ptr |-> w, type |-> o]

TryCast(o, m, v, w) ==
  IF Test(m, v, w) THEN [null |-> FALSE, ptr |-> w, type |-> o] ELSE NullPtr

---------------------------------------------------------------------------
(* Inputs *)

\* constants offered as template arguments of For
ArgCandidates == {-1, 0, 255, 65280, 65536}

\* leading words of operation records: an opcode byte, the rest of the
\* Operation base, and four bytes of members
MakeRecord(o, f, t) ==
  [b \in ByteIdx |-> IF b = 0 THEN o ELSE IF b < kOperationSize THEN f ELSE t[b]]
Records ==
  { MakeRecord(OpcodeOf(o), f, t) :
      o \in Ops, f \in {0, 255}, t \in [kOperationSize .. (kWordSize - 1) -> {0, 255}] }

---------------------------------------------------------------------------
(* State machine *)

\* MaskBuilder<WordBinopOp>, no field named yet; the records it is used on
\* are of either operation type
Init ==
  /\ op = "WordBinopOp"
  /\ fields = <<>>
  /\ args = <<>>
  /\ mask = Zero64
  /\ value = Zero64
  /\ pc = "declare"
  /\ err = "none"
  /\ record = Zero64
  /\ isResult = FALSE
  /\ castResult = NullPtr

Reject(why) ==
  /\ pc' = "error"
  /\ err' = why
  /\ UNCHANGED <<op, args, mask, value, record, isResult, castResult>>

\* OpMaskField<T, Offset> named as one more field of MaskBuilder<Op, Fields...>
AddField(T, Offset) ==
  /\ pc = "declare"
  /\ Len(fields) < MaxFields
  /\ fields' = Append(fields, OpMaskField(T, Offset))
  /\ IF OpMaskFieldAssert(OpMaskField(T, Offset))
     THEN UNCHANGED <<op, args, mask, value, pc, err, record, isResult, castResult>>
     ELSE Reject("OpMaskField")

\* direct instantiation: any type and offset
DeclareField == \E T \in FieldTypes, Offset \in 0 .. kWordSize : AddField(T, Offset)

\* FIELD(op, field_name): a member of the operation type
FIELD == \E m \in Members : AddField(m[1], m[2])

\* MaskBuilder<Op, Fields...>::For<Args...>
For ==
  /\ pc = "declare"
  /\ IF ~ \A i \in 1 .. Len(fields) : BuildFieldMaskAssert(fields[i])
     THEN Reject("BuildFieldMask") /\ UNCHANGED fields
     ELSE \E a \in [1 .. Len(fields) -> ArgCandidates] :
            IF ~ \A i \in 1 .. Len(fields) : FitsType(fields[i].type, a[i])
            THEN Reject("narrowing") /\ UNCHANGED fields
            ELSE /\ mask' = BuildMask(fields)
                 /\ value' = EncodeValue(OpcodeOf(op), fields, a)
                 /\ args' = a
                 /\ pc' = "built"
                 /\ UNCHANGED <<op, fields, err, record, isResult, castResult>>

\* my_op.Is<Mask>()
Is ==
  \E w \in Records :
    /\ pc = "built"
    /\ record' = w
    /\ isResult' = Test(mask, value, w)
    /\ pc' = "is"
    /\ UNCHANGED <<op, fields, args, mask, value, err, castResult>>

\* my_op.TryCast<Mask>()
TryCastCall ==
  \E w \in Records :
    /\ pc = "built"
    /\ record' = w
    /\ isResult' = Test(mask, value, w)
    /\ castResult' = TryCast(op, mask, value, w)
    /\ pc' = "trycast"
    /\ UNCHANGED <<op, fields, args, mask, value, err>>

\* masks of declared operation members, used at run time
Next == FIELD \/ For \/ Is \/ TryCastCall
Spec == Init /\ [][Next]_vars

\* the build-time constants for arbitrary field descriptors
NextBuild == DeclareField \/ For
SpecBuild == Init /\ [][NextBuild]_vars

---------------------------------------------------------------------------
(* Vocabulary of the properties *)

Built   == pc = "built"
Checked == pc \in {"is", "trycast"}

\* the byte offsets a field occupies
FieldBytes(F) == F.offset .. (F.offset + F.size - 1)

\* the fields are distinct members of one operation type: pairwise disjoint
\* byte ranges, none of them the opcode byte
DisjointMembers(fs) ==
  /\ \A i \in 1 .. Len(fs) : 0 \notin FieldBytes(fs[i])
  /\ \A i, j \in 1 .. Len(fs) : i # j => FieldBytes(fs[i]) \cap FieldBytes(fs[j]) = {}

\* the bytes of w at F's offset and width hold exactly the value v (as F's
\* type stores it: two's complement for a negative v)
RecordHolds(w, F, v) ==
  \A k \in 0 .. (F.size - 1) : w[F.offset + k] = (v \div Pow256(k)) % 256

Agrees(w, o, fs, a) ==
  /\ w[0] = OpcodeOf(o)
  /\ \A i \in 1 .. Len(fs) : RecordHolds(w, fs[i], a[i])

\* v zero-extended to 64 bits and masked to the width of F
ZeroExtendMasked(F, v) ==
  [b \in ByteIdx |-> IF b < F.size THEN (v \div Pow256(b)) % 256 ELSE 0]

RECURSIVE ExpectedPatternFrom(_, _, _)
ExpectedPatternFrom(acc, fs, a) ==
  IF fs = <<>> THEN acc
  ELSE ExpectedPatternFrom(
         Or64(acc, Shl64(ZeroExtendMasked(Head(fs), Head(a)),
                         Head(fs).offset * kBitsPerByte)),
         Tail(fs), Tail(a))

\* the value tuples the build accepts for fs
Accepted(fs) ==
  { a \in [1 .. Len(fs) -> ArgCandidates] :
      \A i \in 1 .. Len(fs) : FitsType(fs[i].type, a[i]) }

Perms(n) == { p \in [1 .. n -> 1 .. n] : \A i, j \in 1 .. n : i # j => p[i] # p[j] }
Permute(s, p) == [i \in 1 .. Len(s) |-> s[p[i]]]

RECURSIVE Restrict(_, _, _)
Restrict(s, keep, i) ==
  IF i > Len(s) THEN <<>>
  ELSE (IF i \in keep THEN <<s[i]>> ELSE <<>>) \o Restrict(s, keep, i + 1)

---------------------------------------------------------------------------
(* Properties *)

\* C1: Is<M>() on a record is true if and only if the record's opcode byte is
\* the owning type's opcode and, for every field of M, the record's bytes at
\* that field hold exactly the value bound to it.
SoundnessOfTest ==
  (Checked /\ DisjointMembers(fields)) =>
    (isResult <=> Agrees(record, op, fields, args))

\* C2: TryCast<M>() returns the record itself, typed as the owning operation
\* type, exactly when the test (record & mask) == value is true, and null
\* otherwise; the call changes neither the mask's constants nor its fields
\* and raises no error.
TryCastAgreesWithTest ==
  [][(pc = "built" /\ pc' = "trycast") =>
       /\ (~ castResult'.null) <=> (And64(record', mask) = value)
       /\ (~ castResult'.null) => (castResult'.ptr = record' /\ castResult'.type = op)
       /\ castResult'.null => castResult' = NullPtr
       /\ isResult' = ~ castResult'.null
       /\ <<op, fields, args, mask, value>>' = <<op, fields, args, mask, value>>
       /\ err' = "none"]_vars

C2Witness ==
  /\ pc = "trycast"
  /\ ~ castResult.null
  /\ Len(fields) = 2
  /\ \E b \in ByteIdx : mask[b] = 0 /\ record[b] # 0

\* C3: the selector mask has exactly the opcode byte and, for each declared
\* field, the size bytes starting at its offset set to 0xFF, and every other
\* byte zero: it is a function of the descriptors alone and always selects
\* the opcode byte.
SelectorMaskConstruction ==
  Built =>
    \A b \in ByteIdx :
      mask[b] = IF b = 0 \/ \E i \in 1 .. Len(fields) : b \in FieldBytes(fields[i])
                THEN 255 ELSE 0

C3Witness ==
  /\ Built
  /\ Len(fields) = 2
  /\ fields[1].size = 2 /\ fields[1].offset = 5
  /\ fields[2].size = 1 /\ fields[2].offset = 2
  /\ \E i \in 1 .. 2 : args[i] # 0

\* C4: the pattern is the opcode constant OR-combined with each bound value
\* zero-extended to 64 bits, masked to its field's byte width and shifted to
\* its field's byte offset, also for a field of signed type.
PatternEncoding ==
  Built => value = ExpectedPatternFrom(StaticCastUint64(OpcodeOf(op)), fields, args)

\* C5: a built Shape Mask has no pattern bit outside its selector mask.
NoStrayPatternBits ==
  Built => And64(value, Not64(mask)) = Zero64

\* C6: a mask over a strict subset of a type's members matches every record
\* whose opcode and selected members agree with the bound values, whatever
\* the other bytes hold; and a record matched by a mask is matched by every
\* narrower mask bound to the same values on the members it keeps.
NarrowingIgnoresExcluded ==
  (Checked /\ DisjointMembers(fields)) =>
    /\ ( /\ \E b \in kOperationSize .. (kWordSize - 1) :
              \A i \in 1 .. Len(fields) : b \notin FieldBytes(fields[i])
         /\ Agrees(record, op, fields, args) ) => isResult
    /\ isResult =>
         \A keep \in SUBSET (1 .. Len(fields)) :
           Test(BuildMask(Restrict(fields, keep, 1)),
                EncodeValue(OpcodeOf(op), Restrict(fields, keep, 1),
                            Restrict(args, keep, 1)),
                record)

\* C7: declaring the same fields in another order, with the arguments
\* reordered to match, gives the same selector mask and the same pattern.
OrderIndependence ==
  Built =>
    \A p \in Perms(Len(fields)) :
      /\ BuildMask(Permute(fields, p)) = mask
      /\ EncodeValue(OpcodeOf(op), Permute(fields, p), Permute(args, p)) = value

C7Witness ==
  /\ Built
  /\ Len(fields) = 2
  /\ fields[1].offset # fields[2].offset
  /\ fields[1].size # fields[2].size
  /\ args[1] # 0 /\ args[2] # 0 /\ args[1] # args[2]

\* C8: a descriptor with offset + size > 8 or size >= 8 is rejected by the
\* build: every field of a built mask has offset + size <= 8 and size < 8,
\* and a descriptor reaching past the word stops the build where it is
\* declared.
FieldDescriptorValidation ==
  /\ Built =>
       \A i \in 1 .. Len(fields) :
         fields[i].offset + fields[i].size <= kWordSize /\ fields[i].size < kWordSize
  /\ (\E i \in 1 .. Len(fields) : fields[i].offset + fields[i].size > kWordSize)
       => (pc = "error" /\ err = "OpMaskField")

C8Witness ==
  /\ pc = "error"
  /\ err = "BuildFieldMask"
  /\ \E i \in 1 .. Len(fields) : fields[i].size = kWordSize /\ fields[i].offset = 0

\* C9: no Shape Mask is built from a value outside [0, 2^(8*size) - 1] of
\* its field.
OutOfRangeValueRejected ==
  Built =>
    \A i \in 1 .. Len(fields) :
      args[i] >= 0 /\ args[i] <= Pow256(fields[i].size) - 1

\* C10: a record matched by a mask over disjoint members is matched by no
\* mask of the same specification bound to another value tuple, and by no
\* mask whose owning type has another opcode.
MutualExclusivity ==
  (Checked /\ isResult /\ DisjointMembers(fields)) =>
    /\ \A a \in Accepted(fields) :
         a # args => ~ Test(mask, EncodeValue(OpcodeOf(op), fields, a), record)
    /\ \A o \in Ops \ {op} : \A a \in Accepted(fields) :
         ~ Test(BuildMask(fields), EncodeValue(OpcodeOf(o), fields, a), record)

====
